---- MODULE Spec2Model ----
(***************************************************************************)
(* A model of the packet filtering, grouping and decoding pipeline of      *)
(* vidfile_iterator.py.  Python generators are modelled as resumable       *)
(* objects: one action is one next() call of the consumer on a generator,  *)
(* and runs the generator's code up to its next yield or to its end.       *)
(***************************************************************************)
EXTENDS Integers, Sequences, FiniteSets, TLC

\* ------------------------------------------------------------------ bounds
MaxLen == 3      \* packets in a generated source
MaxOrd == 3      \* largest ordinal of a generated source
MaxStreams == 2  \* streams in a generated multi-stream source
MaxK == 2        \* packets the synthetic decoder may hold back
MaxPts == 4      \* largest timestamp given to filter_by_pts_range
MaxThumbs == 2   \* largest thumbs_per_row tried besides the default

\* ----------------------------------------------------------------- packets
\* packet_data_type: (packet_no, packet).  ok is the outcome of filter_func on
\* the packet (the predicate is a pure function of the packet).
Pkt(n, b) == [ord |-> n, ok |-> b]

NoPacket == [ord |-> -1, ok |-> FALSE]

Packets == {Pkt(n, b) : n \in 0..MaxOrd, b \in BOOLEAN}

\* Packet sequences with strictly increasing ordinals (the Packet Source numbers
\* packets in increasing order; filtering upstream may leave gaps).
PacketSeqs(n) ==
  {s \in UNION {[1..m -> Packets] : m \in 0..n} :
     \A i \in 1..(Len(s) - 1) : s[i].ord < s[i + 1].ord}

\* The two sources of the specification's testable properties 1 and 2.
GapExample == [i \in 1..6 |-> Pkt(IF i <= 3 THEN i - 1 ELSE i + 1, TRUE)]

EvenExample == [i \in 1..5 |-> Pkt(i - 1, (i - 1) % 2 = 0)]

\* Every way to cut s into m consecutive streams (streams may be empty).
Splits(s, m) ==
  {[i \in 1..m |-> SubSeq(s, c[i] + 1, c[i + 1])] :
     c \in {d \in [1..(m + 1) -> 0..Len(s)] :
              /\ d[1] = 0
              /\ d[m + 1] = Len(s)
              /\ \A i \in 1..m : d[i] <= d[i + 1]}}

RECURSIVE Flatten(_)
Flatten(ss) == IF ss = << >> THEN << >> ELSE Head(ss) \o Flatten(Tail(ss))

VARIABLES
  op,                  \* the operation under call
  packet_stream,       \* the filter's input: [multi, oneShot, innerOneShot, streams]
  started,             \* the filter generator has run _normalize_input
  normalized_streams,  \* _normalize_input's result: indices into the streams
  stream_iterator,     \* per normalized entry: packets consumed from its iterator
  cur_stream,          \* normalized entry _process_single_stream is scanning
  parent_done,         \* the filter generator has finished
  runs,                \* the consecutive iterators yielded so far
  inOrder,             \* every run was drained before the parent was advanced
  filter_calls         \* the packets filter_func was called on, in order, by the
                       \* filter and by the streaming grouper's first pass

filterVars == <<packet_stream, started, normalized_streams, stream_iterator,
                cur_stream, parent_done, runs, inOrder, filter_calls>>

VARIABLES
  packet_iterator,     \* decode_all_packets_with_flush's input: [packets, failAt, K]
  max_packets,         \* [set, n]: None, or the integer n
  dec_pc,              \* where the generator stands
  dec_pos,             \* packets consumed from packet_iterator
  packet_count,
  codec_context,       \* [set, buffer, flushed, reset]: the local variable is
                       \* set or None; the stream's decoder state behind it
  dec_out,             \* the entries (packet_no, frames) yielded
  dec_log,             \* the calls made on the stream's decoder, in order
  dec_end,             \* why the scan ended
  pending,             \* the runs display_thumbnails_stream has yet to decode
  thumbs_per_row,      \* display_thumbnails_stream's parameter
  thumbnails_row,      \* the row of the run being decoded
  row_complete,
  all_thumbs,          \* the rows finished so far
  display_pc           \* "decoding" the runs, or "shown": the loop was left

displayVars == <<thumbs_per_row, thumbnails_row, row_complete, all_thumbs, display_pc>>

decVars == <<packet_iterator, max_packets, dec_pc, dec_pos, packet_count,
             codec_context, dec_out, dec_log, dec_end, pending, displayVars>>

VARIABLES
  kf_stream,           \* group_packets_starting_with_keyframe's input
  kf_pc,               \* where the generator stands
  kf_pos,              \* packets consumed from kf_stream
  group,               \* the group being built
  kf_out,              \* the groups yielded, as they were when yielded
  kf_lists,            \* the list objects made so far; `group` names the last
  kf_iters             \* the iterators yielded: [obj, pos, got, st]

keyVars == <<kf_stream, kf_pc, kf_pos, group, kf_out, kf_lists, kf_iters>>

VARIABLES
  file,                \* the file behind `filename`, and the caller's stream of it
  sk_pc,               \* where the call or the generator stands
  group_boundaries,    \* the first pass's records
  sk_next,             \* the boundary the second pass resolves next
  sk_out,              \* the frame lists returned or yielded
  io_log,              \* the container and decoder calls made, in order
  pts_range            \* decode_group_by_pts_range's [start_pts, end_pts]

seekVars == <<file, sk_pc, group_boundaries, sk_next, sk_out, io_log, pts_range>>

VARIABLES
  sf_K,                \* the decoders' delay
  sf_contexts,         \* stream -> its codec_context (the decoder's state)
  sf_held,             \* the caller's codec_context variable: 0 (None) or a stream
  sf_calls             \* the decode calls made, in order, with what they returned

stateVars == <<sf_K, sf_contexts, sf_held, sf_calls>>

VARIABLES
  pf_packet_data,      \* filter_by_pts_range's packet_data: [ord, pts]
  pf_min_pts,
  pf_max_pts,          \* NoPts for None
  pf_result            \* << >> before the call, then what it returned

ptsVars == <<pf_packet_data, pf_min_pts, pf_max_pts, pf_result>>

vars == <<op, filterVars, decVars, keyVars, seekVars, stateVars, ptsVars>>

\* ---------------------------------------------------------------- the filter
filter_func(p) == p.ok

\* line 50 (negated): the packet continues the run
IsConsecutiveMutant(next_packet_no, last_packet_no) == next_packet_no > last_packet_no

IsConsecutive(next_packet_no, last_packet_no) == next_packet_no = last_packet_no + 1

\* _normalize_input: the list of streams the filter will scan, as indices into
\* packet_stream.streams, and what detection has consumed from each.
\*   - a single packet stream: next(iter(stream)) reads its first element; a
\*     one-shot iterator has then lost it, a list has not (iter() is fresh);
\*   - a stream of streams: the first stream is yielded, then `yield from stream`
\*     follows: the rest of a one-shot iterator, the whole of a list;
\*   - StopIteration: [].
Normalize(ps) ==
  LET ss == ps.streams IN
  IF ~ps.multi
    THEN IF ss[1] = << >>
           THEN [norm |-> << >>, pos |-> << >>]
           ELSE [norm |-> <<1>>, pos |-> <<IF ps.oneShot THEN 1 ELSE 0>>]
    ELSE IF ss = << >>
           THEN [norm |-> << >>, pos |-> << >>]
           ELSE LET rest == IF ps.oneShot
                              THEN [i \in 1..(Len(ss) - 1) |-> i + 1]
                              ELSE [i \in 1..Len(ss) |-> i]
                    nrm == <<1>> \o rest
                IN [norm |-> nrm, pos |-> [i \in 1..Len(nrm) |-> 0]]

\* iter(stream) at line 70: a one-shot stream is its own iterator, so two
\* entries naming the same stream share one cursor; a list gets a fresh one.
CursorOf(ps, nrm, j) ==
  IF ps.multi /\ ps.innerOneShot
    THEN CHOOSE i \in 1..j : nrm[i] = nrm[j] /\ \A h \in 1..(i - 1) : nrm[h] # nrm[j]
    ELSE j

\* filter_stream_preserve_consecutivity resumed (lines 169-170, 73-92): scan on
\* from entry j until a packet matches (a run is yielded) or all is exhausted.
RECURSIVE ProcessStreams(_, _, _, _)
ProcessStreams(ps, nrm, pos, j) ==
  IF j > Len(nrm)
    THEN [found |-> FALSE, j |-> j, pos |-> pos, pkt |-> NoPacket, cur |-> 0,
          calls |-> << >>]
    ELSE LET c == CursorOf(ps, nrm, j)
             s == ps.streams[nrm[j]]
         IN IF pos[c] >= Len(s)
              THEN ProcessStreams(ps, nrm, pos, j + 1)
              ELSE LET p == s[pos[c] + 1]
                       pos2 == [pos EXCEPT ![c] = @ + 1]
                   IN IF filter_func(p)
                        THEN [found |-> TRUE, j |-> j, pos |-> pos2, pkt |-> p, cur |-> c,
                              calls |-> <<p>>]
                        ELSE [ProcessStreams(ps, nrm, pos2, j) EXCEPT
                                !.calls = <<p>> \o @]

\* line 35: the run's first output
FirstYieldTwice(start_packet_data) == <<start_packet_data, start_packet_data>>

FirstYieldMutant(start_packet_data) == << >>

FirstYield(start_packet_data) == <<start_packet_data>>

AllRunsDone == \A i \in 1..Len(runs) : runs[i].st = "done"

\* The consumer calls next() on the filter's result.
ParentNext ==
  /\ op = "filter"
  /\ ~parent_done
  /\ LET n0 == IF started
                 THEN [norm |-> normalized_streams, pos |-> stream_iterator]
                 ELSE Normalize(packet_stream)
         j0 == IF started THEN cur_stream ELSE 1
         r == ProcessStreams(packet_stream, n0.norm, n0.pos, j0)
     IN /\ started' = TRUE
        /\ normalized_streams' = n0.norm
        /\ stream_iterator' = r.pos
        /\ cur_stream' = r.j
        /\ parent_done' = ~r.found
        /\ runs' = IF r.found
                     THEN Append(runs, [st |-> "new", start |-> r.pkt, last |-> r.pkt.ord,
                                        cur |-> r.cur, stream |-> n0.norm[r.j],
                                        out |-> << >>])
                     ELSE runs
        /\ filter_calls' = filter_calls \o r.calls
  /\ inOrder' = (inOrder /\ AllRunsDone)
  /\ UNCHANGED <<op, packet_stream, decVars, keyVars, seekVars, stateVars, ptsVars>>

\* The consumer calls next() on run i (_create_consecutive_iterator resumed).
RunNext(i) ==
  /\ op = "filter"
  /\ runs[i].st # "done"
  /\ LET r == runs[i]
         s == packet_stream.streams[r.stream]
         at == stream_iterator[r.cur]
     IN IF r.st = "new"
          THEN /\ runs' = [runs EXCEPT ![i].st = "active", ![i].out = FirstYield(r.start)]
               /\ UNCHANGED <<stream_iterator, filter_calls>>
          ELSE IF at >= Len(s)
            THEN /\ runs' = [runs EXCEPT ![i].st = "done"]
                 /\ UNCHANGED <<stream_iterator, filter_calls>>
            ELSE /\ stream_iterator' = [stream_iterator EXCEPT ![r.cur] = @ + 1]
                 /\ filter_calls' = Append(filter_calls, s[at + 1])
                 /\ IF filter_func(s[at + 1]) /\ IsConsecutive(s[at + 1].ord, r.last)
                      THEN runs' = [runs EXCEPT ![i].out = Append(@, s[at + 1]),
                                                ![i].last = s[at + 1].ord]
                      ELSE runs' = [runs EXCEPT ![i].st = "done"]
  /\ UNCHANGED <<op, packet_stream, started, normalized_streams, cur_stream,
                 parent_done, inOrder, decVars, keyVars, seekVars, stateVars, ptsVars>>

\* The inputs: a single packet stream (a one-shot iterator or a list), or a
\* one-shot iterator or list of streams, themselves one-shot iterators or lists.
SingleSource(o, s) ==
  [multi |-> FALSE, oneShot |-> o, innerOneShot |-> o, streams |-> <<s>>]

MultiSource(o, io, ss) ==
  [multi |-> TRUE, oneShot |-> o, innerOneShot |-> io, streams |-> ss]

FilterSource(n, k) ==
  \/ \E o \in BOOLEAN, s \in PacketSeqs(n) \cup {GapExample, EvenExample} :
        packet_stream = SingleSource(o, s)
  \/ \E o \in BOOLEAN, io \in BOOLEAN :
        \/ packet_stream = MultiSource(o, io, << >>)
        \/ \E s \in PacketSeqs(n), m \in 1..k :
              \E ss \in Splits(s, m) : packet_stream = MultiSource(o, io, ss)

FilterStart ==
  /\ started = FALSE
  /\ normalized_streams = << >>
  /\ stream_iterator = << >>
  /\ cur_stream = 1
  /\ parent_done = FALSE
  /\ runs = << >>
  /\ inOrder = TRUE
  /\ filter_calls = << >>

\* ------------------------------------------------------ the decode engine
\* A packet handed to the decoder; bad: the decoder raises on it.
DPkt(n, b) == [ord |-> n, bad |-> b]

DecodeSeqs(len) ==
  {s \in UNION {[1..m -> {DPkt(n, b) : n \in 0..MaxOrd, b \in BOOLEAN}] : m \in 0..len} :
     \A i \in 1..(Len(s) - 1) : s[i].ord < s[i + 1].ord}

\* The decoder (an external collaborator): it holds back up to K packets before
\* it emits, one frame per packet, the frame named by its packet's ordinal.
\* decode(packet) raises on a bad packet and leaves the state as it was.
\* decode(packet) on a flushed state is rejected (it raises), unless the decoder
\* supports a reset (ctx.reset): the call then opens a fresh session.
CodecDecode(ctx, p, K) ==
  IF p.bad \/ (ctx.flushed /\ ~ctx.reset)
    THEN [ctx |-> ctx, frames |-> << >>, raised |-> TRUE]
    ELSE LET b == Append(ctx.buffer, p.ord) IN
         IF Len(b) > K
           THEN [ctx |-> [ctx EXCEPT !.buffer = Tail(b), !.flushed = FALSE],
                 frames |-> <<Head(b)>>, raised |-> FALSE]
           ELSE [ctx |-> [ctx EXCEPT !.buffer = b, !.flushed = FALSE],
                 frames |-> << >>, raised |-> FALSE]

\* decode(None): everything held back comes out.
CodecFlush(ctx) ==
  [ctx |-> [ctx EXCEPT !.buffer = << >>, !.flushed = TRUE], frames |-> ctx.buffer]

\* decode_packet_to_frames: a decode failure gives the empty frame list, and
\* nothing is raised to the caller (lines 339-347).
decode_packet_to_framesMutant(ctx, p, K) == CodecDecode(ctx, p, K)

decode_packet_to_frames(ctx, p, K) ==
  LET r == CodecDecode(ctx, p, K) IN
    [ctx |-> r.ctx, frames |-> IF r.raised THEN << >> ELSE r.frames, raised |-> FALSE]

\* flush_decoder
flush_decoderMutant(ctx) == [ctx |-> CodecFlush(ctx).ctx, frames |-> << >>]

flush_decoder(ctx) == CodecFlush(ctx)

\* line 405, with the limit tested for being passed, not reached
LimitReachedMutant(mp, count) == mp.set /\ mp.n # 0 /\ count > mp.n

\* line 405: `max_packets and packet_count >= max_packets`
LimitReached(mp, count) == mp.set /\ mp.n # 0 /\ count >= mp.n

\* line 409: `if codec_context:`
HasContextAlways(ctx) == TRUE

HasContextMutant(ctx) == ctx.set /\ ctx.buffer # << >>

HasContext(ctx) == ctx.set

\* display_utils.py line 51: thumbs_per_row: int = 10
DefaultThumbs == 10

\* display_utils.py line 71: frame.to_image()
ToImage(frame) == [image |-> frame]

ToImages(frames) == [i \in 1..Len(frames) |-> ToImage(frames[i])]

\* display_utils.py lines 66-75: an entry without frames is skipped; the others
\* are added to the row, and the row is complete once it holds more than
\* thumbs_per_row thumbnails.
RowFull(row, frames) == Len(frames) > 0 /\ Len(row) + Len(frames) > thumbs_per_row

\* display_utils.py lines 75-79: display_thumbnails_stream leaves its loop over
\* the generator by `break` when the row is complete.  Any other consumer
\* (op "flush") goes on to the next entry.
Break(frames) == op = "pipeline" /\ RowFull(thumbnails_row, frames)

\* Where the generator stands after a yield: suspended at the yield, or, when
\* the consumer breaks, closed there: GeneratorExit is raised at the yield,
\* `except Exception` does not catch it, and nothing after the yield runs.
AfterYield(frames, pc) == IF Break(frames) THEN "closed" ELSE pc

\* Lines 408-414: flush the decoder if a codec context was obtained, and yield
\* the sentinel entry if the flush gave frames.
FlushPart(why) ==
  /\ dec_end' = why
  /\ IF HasContext(codec_context)
       THEN LET r == flush_decoder(codec_context) IN
            /\ codec_context' = r.ctx
            /\ dec_log' = Append(dec_log, "flush")
            /\ IF r.frames # << >>
                 THEN /\ dec_out' = Append(dec_out, [no |-> -1, frames |-> r.frames])
                      /\ dec_pc' = AfterYield(r.frames, "flush_yielded")
                 ELSE /\ dec_pc' = "done"
                      /\ UNCHANGED dec_out
       ELSE /\ dec_pc' = "done"
            /\ UNCHANGED <<codec_context, dec_log, dec_out>>

\* Lines 416-418: an exception inside the try block is caught and not raised
\* again: the generator ends, with what it has yielded so far.
ExceptClauseMutant(out) == [pc |-> "done", end |-> "raised", out |-> out]

ExceptClause(out) == [pc |-> "done", end |-> "error", out |-> out]

\* One next() on decode_all_packets_with_flush's result: the generator runs
\* from where it stands up to its next yield or its end.
DecStep ==
  /\ dec_pc \notin {"done", "closed"}
  /\ LET count == IF dec_pc = "yielded" THEN packet_count + 1 ELSE packet_count
         ps == packet_iterator.packets
     IN /\ packet_count' = count
        /\ IF dec_pc = "flush_yielded"
             THEN /\ dec_pc' = "done"
                  /\ UNCHANGED <<dec_pos, codec_context, dec_out, dec_log, dec_end>>
           ELSE IF dec_pc = "yielded" /\ LimitReached(max_packets, count)
             THEN /\ FlushPart("limit")
                  /\ UNCHANGED dec_pos
           ELSE IF packet_iterator.failAt = dec_pos + 1
             THEN \* the source raises
                  /\ dec_pc' = ExceptClause(dec_out).pc
                  /\ dec_end' = ExceptClause(dec_out).end
                  /\ dec_out' = ExceptClause(dec_out).out
                  /\ UNCHANGED <<dec_pos, codec_context, dec_log>>
           ELSE IF dec_pos >= Len(ps)
             THEN /\ FlushPart("exhausted")
                  /\ UNCHANGED dec_pos
           ELSE LET p == ps[dec_pos + 1]
                    r == decode_packet_to_frames(codec_context, p, packet_iterator.K)
                IN /\ dec_pos' = dec_pos + 1
                   /\ codec_context' = [r.ctx EXCEPT !.set = TRUE]
                   /\ dec_log' = Append(dec_log, "decode")
                   /\ IF r.raised
                        THEN /\ dec_pc' = ExceptClause(dec_out).pc
                             /\ dec_end' = ExceptClause(dec_out).end
                             /\ dec_out' = ExceptClause(dec_out).out
                        ELSE /\ dec_out' = Append(dec_out,
                                                  [no |-> p.ord, frames |-> r.frames])
                             /\ dec_pc' = AfterYield(r.frames, "yielded")
                             /\ UNCHANGED dec_end
  /\ UNCHANGED <<op, packet_iterator, max_packets, pending, filterVars, keyVars,
                 seekVars, stateVars, ptsVars>>

\* A consumer that drains the generator entry by entry.
DecNext ==
  /\ op = "flush"
  /\ DecStep
  /\ UNCHANGED displayVars

\* display_thumbnails_stream, lines 64-79: the loop over the generator takes
\* the next entry and runs its body on it.  An entry without frames is
\* skipped; the frames of any other are added to the row, and a row of more
\* than thumbs_per_row thumbnails is cropped and ends the loop (the generator
\* is closed where it stands, see AfterYield).
DisplayNext ==
  /\ op = "pipeline"
  /\ display_pc = "decoding"
  /\ DecStep
  /\ LET frames == IF Len(dec_out') > Len(dec_out)
                     THEN dec_out'[Len(dec_out')].frames ELSE << >>
         row == thumbnails_row \o ToImages(frames)
     IN IF RowFull(thumbnails_row, frames)
          THEN /\ thumbnails_row' = SubSeq(row, 1, thumbs_per_row)
               /\ row_complete' = TRUE
          ELSE /\ thumbnails_row' = row
               /\ UNCHANGED row_complete
  /\ UNCHANGED <<thumbs_per_row, all_thumbs, display_pc>>

\* display_thumbnails_stream, lines 81-91 and 55-61: the loop over the
\* generator has ended, by exhaustion or by the break.  A row that holds
\* thumbnails or is complete is added to all_thumbs; otherwise more than 4 rows
\* end the display.  The outer loop then takes the next run of the source, and
\* stops if there is none or if more than 10 rows are there; else the run goes
\* to a new call of decode_all_packets_with_flush.  Its local codec_context
\* starts as None; line 398 then takes packet.stream.codec_context, the one
\* decoder object of the stream, in whatever state the calls before have left
\* it: flushed, or, after a break, not flushed and holding what it held.
NextInvocation ==
  /\ op = "pipeline"
  /\ display_pc = "decoding"
  /\ dec_pc \in {"done", "closed"}
  /\ LET keep == Len(thumbnails_row) > 0 \/ row_complete
         rows == IF keep THEN Append(all_thumbs, thumbnails_row) ELSE all_thumbs
     IN /\ all_thumbs' = rows
        /\ thumbnails_row' = << >>
        /\ row_complete' = FALSE
        /\ IF (~keep /\ Len(rows) > 4) \/ pending = << >>
             THEN /\ display_pc' = "shown"
                  /\ UNCHANGED <<packet_iterator, pending, dec_pc, dec_pos,
                                 packet_count, codec_context, dec_out, dec_end>>
           ELSE IF Len(rows) > 10
             THEN /\ display_pc' = "shown"
                  /\ pending' = Tail(pending)
                  /\ UNCHANGED <<packet_iterator, dec_pc, dec_pos, packet_count,
                                 codec_context, dec_out, dec_end>>
           ELSE /\ packet_iterator' = [packet_iterator EXCEPT !.packets = Head(pending)]
                /\ pending' = Tail(pending)
                /\ dec_pc' = "start"
                /\ dec_pos' = 0
                /\ packet_count' = 0
                /\ codec_context' = [codec_context EXCEPT !.set = FALSE]
                /\ dec_out' = << >>
                /\ dec_end' = "none"
                /\ UNCHANGED display_pc
  /\ UNCHANGED <<op, max_packets, dec_log, thumbs_per_row, filterVars, keyVars,
                 seekVars, stateVars, ptsVars>>

\* The decoder of a stream just opened, and the caller's variable still None.
StreamContext(rs) ==
  [set |-> FALSE, buffer |-> << >>, flushed |-> FALSE, reset |-> rs]

DecInputs(S) ==
  /\ packet_iterator \in S
  /\ max_packets \in {[set |-> FALSE, n |-> 0]}
                     \cup {[set |-> TRUE, n |-> n] : n \in 0..(MaxLen + 1)}
  /\ dec_pc = "start"
  /\ dec_pos = 0
  /\ packet_count = 0
  /\ codec_context \in {StreamContext(rs) : rs \in BOOLEAN}
  /\ dec_out = << >>
  /\ dec_log = << >>
  /\ dec_end = "none"

\* display_thumbnails_stream, lines 52-60, at its first run.
DisplayStart ==
  /\ thumbnails_row = << >>
  /\ row_complete = FALSE
  /\ all_thumbs = << >>
  /\ display_pc = "decoding"

\* No display: decode_all_packets_with_flush is called on its own.
NoDisplay ==
  /\ thumbs_per_row = DefaultThumbs
  /\ DisplayStart

\* The runs of one source, as the filter hands them over: the source cut into
\* consecutive non-empty runs.
RunsOf(s) ==
  {r \in UNION {Splits(s, m) : m \in 1..Len(s)} : \A i \in 1..Len(r) : r[i] # << >>}

PipelineInputs(len) ==
  \E s \in DecodeSeqs(len) \ {<< >>}, K \in 0..MaxK, rs \in BOOLEAN :
    \E r \in RunsOf(s) :
      /\ DecInputs({[packets |-> Head(r), failAt |-> 0, K |-> K]})
      /\ max_packets = [set |-> FALSE, n |-> 0]
      /\ codec_context.reset = rs
      /\ pending = Tail(r)
      /\ thumbs_per_row \in (1..MaxThumbs) \cup {DefaultThumbs}
      /\ DisplayStart

DecSources(len) ==
  UNION {{[packets |-> s, failAt |-> f, K |-> K] : f \in 0..(Len(s) + 1), K \in 0..MaxK} :
           s \in DecodeSeqs(len)}

\* ------------------------------------------ the per-packet decode functions
\* The streams whose packets the caller decodes; a stream's codec_context is
\* one object, named here by its stream.
StreamIds == {1, 2}

None == 0

\* A packet of stream s.
SPkt(n, b, k, s) == [ord |-> n, bad |-> b, key |-> k, stream |-> s]

\* line 336: packet.stream.codec_context
DefaultContextMutant(contexts, p) == StreamContext(FALSE)

DefaultContext(contexts, p) == contexts[p.stream]

\* lines 365-366: `if codec_context is None: codec_context = packet.stream.codec_context`
ContextForMutant(p, given) == p.stream

ContextFor(p, given) == IF given = None THEN p.stream ELSE given

\* decode_packet_to_frames_with_state(packet_data, codec_context): the frames,
\* the codec context returned, the one decode was called on, and the streams'
\* contexts after the call.
decode_packet_to_frames_with_state(contexts, p, given, K) ==
  LET codec_ctx == ContextFor(p, given)
      r == CodecDecode(contexts[codec_ctx], p, K)
  IN [frames |-> IF r.raised THEN << >> ELSE r.frames,
      codec_context |-> codec_ctx,
      called |-> codec_ctx,
      contexts |-> [contexts EXCEPT ![codec_ctx] = r.ctx]]

Call(fn, p, given, called, returned, frames, touched) ==
  [fn |-> fn, packet |-> p, given |-> given, called |-> called,
   returned |-> returned, frames |-> frames, touched |-> touched]

\* A caller decodes one more packet with decode_packet_to_frames_with_state,
\* handing over no state or the codec context of any stream.
StatefulCall ==
  /\ op = "stateful"
  /\ Len(sf_calls) < MaxLen
  /\ \E b \in BOOLEAN, s \in StreamIds, given \in {None} \cup StreamIds :
       LET p == SPkt(Len(sf_calls), b, TRUE, s)
           r == decode_packet_to_frames_with_state(sf_contexts, p, given, sf_K)
       IN /\ sf_contexts' = r.contexts
          /\ sf_held' = r.codec_context
          /\ sf_calls' = Append(sf_calls,
                Call("with_state", p, given, r.called, r.codec_context, r.frames,
                     {c \in StreamIds : r.contexts[c] # sf_contexts[c]}))
  /\ UNCHANGED <<op, sf_K, filterVars, decVars, keyVars, seekVars, ptsVars>>

\* test_individual_packet_decoding and test_individual_packet_decoding_with_state
\* (test_frame_decoding.py): the same file is opened twice (streams 1 and 2) and
\* its next packet is decoded with decode_packet_to_frames on the first and with
\* decode_packet_to_frames_with_state, the state threaded, on the second.
CompareStep ==
  /\ op = "compare"
  /\ Len(sf_calls) < 2 * MaxLen
  /\ \E b \in BOOLEAN, k \in BOOLEAN :
       LET n == Len(sf_calls) \div 2
           p1 == SPkt(n, b, k, 1)
           p2 == SPkt(n, b, k, 2)
           a == decode_packet_to_frames(DefaultContext(sf_contexts, p1), p1, sf_K)
           c1 == [sf_contexts EXCEPT ![1] = a.ctx]
           r == decode_packet_to_frames_with_state(c1, p2, sf_held, sf_K)
       IN /\ sf_contexts' = r.contexts
          /\ sf_held' = r.codec_context
          /\ sf_calls' = sf_calls \o
                <<Call("stateless", p1, None, 1, None, a.frames,
                       {c \in StreamIds : c1[c] # sf_contexts[c]}),
                  Call("with_state", p2, sf_held, r.called, r.codec_context, r.frames,
                       {c \in StreamIds : r.contexts[c] # c1[c]})>>
  /\ UNCHANGED <<op, sf_K, filterVars, decVars, keyVars, seekVars, ptsVars>>

StateStart ==
  /\ sf_contexts = [s \in StreamIds |-> StreamContext(FALSE)]
  /\ sf_held = None
  /\ sf_calls = << >>

\* --------------------------------------------- the keyframe-anchored grouper
\* A packet of the grouper's source; key: packet.is_keyframe.
KPkt(n, b, k) == [ord |-> n, ok |-> b, key |-> k]

KeySeqs(len) ==
  {s \in UNION {[1..m -> {KPkt(n, b, k) : n \in 0..MaxOrd, b \in BOOLEAN, k \in BOOLEAN}] :
                  m \in 0..len} :
     \A i \in 1..(Len(s) - 1) : s[i].ord < s[i + 1].ord}

\* line 181
IsKeyframeMutant(p) == TRUE

IsKeyframe(p) == p.key

\* lines 189-190: the last group is yielded if it holds anything
FinalYieldMutant(grp) == <<grp>>

FinalYield(grp) == IF grp # << >> THEN <<grp>> ELSE << >>

\* lines 186-188: a passing non-keyframe joins the open group; before the first
\* keyframe there is none and the packet is skipped
AppendToGroupMutant(grp, p) == Append(grp, p)

AppendToGroup(grp, p) == IF grp # << >> THEN Append(grp, p) ELSE grp

\* group_packets_starting_with_keyframe resumed with `group` = grp and the source
\* read up to pos: run the loop up to the next yield or the end.
RECURSIVE KeyframeScan(_, _, _)
KeyframeScan(s, pos, grp) ==
  IF pos >= Len(s)
    THEN [pc |-> IF FinalYield(grp) # << >> THEN "yielded_end" ELSE "done",
          pos |-> pos, group |-> grp, yield |-> FinalYield(grp)]
    ELSE LET p == s[pos + 1] IN
         IF ~filter_func(p) THEN KeyframeScan(s, pos + 1, grp)
         ELSE IF IsKeyframe(p)
           THEN IF grp # << >>
                  THEN [pc |-> "yielded_loop", pos |-> pos + 1, group |-> grp,
                        yield |-> <<grp>>]
                  ELSE KeyframeScan(s, pos + 1, <<p>>)
           ELSE KeyframeScan(s, pos + 1, AppendToGroup(grp, p))

\* line 184, `group = [packet_data]`, as a change of the list `group` names
NewListInPlace(lists, content) == [lists EXCEPT ![Len(lists)] = content]

\* line 184: `group = [packet_data]` binds `group` to a new list object
NewList(lists, content) == Append(lists, content)

\* lines 183 and 190: `yield iter(group)`, an iterator over the list object
ListIterator(obj) == [obj |-> obj, pos |-> 0, got |-> << >>, st |-> "open"]

\* The consumer calls next() on group_packets_starting_with_keyframe's result.
\* After the yield inside the loop, line 184 starts the next group with the
\* keyframe just read.  Line 184 runs at most once in a step: on resumption
\* after the yield in the loop, or at the first keyframe; the appends of line
\* 187 change the list in place.
KeyframeNext ==
  /\ op = "keyframe"
  /\ kf_pc # "done"
  /\ LET r == IF kf_pc = "yielded_end"
                THEN [pc |-> "done", pos |-> kf_pos, group |-> group, yield |-> << >>]
                ELSE IF kf_pc = "yielded_loop"
                  THEN KeyframeScan(kf_stream, kf_pos, <<kf_stream[kf_pos]>>)
                  ELSE KeyframeScan(kf_stream, kf_pos, group)
     IN /\ kf_pc' = r.pc
        /\ kf_pos' = r.pos
        /\ group' = r.group
        /\ kf_out' = kf_out \o r.yield
        /\ kf_lists' = IF kf_pc = "yielded_loop" \/ (group = << >> /\ r.group # << >>)
                         THEN NewList(kf_lists, r.group)
                         ELSE [kf_lists EXCEPT ![Len(kf_lists)] = r.group]
        /\ kf_iters' = IF r.yield # << >>
                         THEN Append(kf_iters, ListIterator(Len(kf_lists')))
                         ELSE kf_iters
  /\ UNCHANGED <<op, kf_stream, filterVars, decVars, seekVars, stateVars, ptsVars>>

\* The consumer calls next() on the i-th group yielded, a list iterator: it
\* gives the element of the list at its position, or is exhausted.
GroupRead(i) ==
  /\ op = "keyframe"
  /\ kf_iters[i].st = "open"
  /\ LET it == kf_iters[i]
         list == kf_lists[it.obj]
     IN kf_iters' = [kf_iters EXCEPT ![i] =
                       IF it.pos < Len(list)
                         THEN [it EXCEPT !.pos = @ + 1, !.got = Append(@, list[it.pos + 1])]
                         ELSE [it EXCEPT !.st = "done"]]
  /\ UNCHANGED <<op, kf_stream, kf_pc, kf_pos, group, kf_out, kf_lists, filterVars,
                 decVars, seekVars, stateVars, ptsVars>>

KeyInputs(S) ==
  /\ kf_stream \in S
  /\ kf_pc = "start"
  /\ kf_pos = 0
  /\ group = << >>
  /\ kf_out = << >>
  /\ kf_lists = << << >> >>
  /\ kf_iters = << >>

\* ------------------------------------------- the seek-and-decode resolvers
\* The file `filename` names, as the container library shows it (an external
\* collaborator): its packets in demux order, each with a pts (NoPts: none), a
\* keyframe flag and whether the decoder raises on it; fault: av.open or
\* container.seek raises; K: the decoder's delay.  inStream and ok say which of
\* the file's packets the caller's packet_stream holds, and which of them
\* filter_func accepts (ok is left FALSE on a packet the stream does not hold);
\* a packet's ordinal is its index in the file, from 0.  The decoder's delay is
\* left 0 for a file that cannot be opened or sought: nothing is decoded then.
NoPts == -1

\* filter_by_pts_range (lines 259-276), the upper end exclusive
filter_by_pts_rangeMutant(packet_data, min_pts, max_pts) ==
  IF packet_data.pts = NoPts THEN FALSE
  ELSE IF max_pts = NoPts THEN packet_data.pts >= min_pts
  ELSE min_pts <= packet_data.pts /\ packet_data.pts < max_pts

\* filter_by_pts_range (lines 259-276)
filter_by_pts_range(packet_data, min_pts, max_pts) ==
  IF packet_data.pts = NoPts THEN FALSE
  ELSE IF max_pts = NoPts THEN packet_data.pts >= min_pts
  ELSE min_pts <= packet_data.pts /\ packet_data.pts <= max_pts

\* A call of filter_by_pts_range(packet_data, min_pts, max_pts).
PtsFilterCall ==
  /\ op = "pts_filter"
  /\ pf_result = << >>
  /\ pf_result' = <<filter_by_pts_range(pf_packet_data, pf_min_pts, pf_max_pts)>>
  /\ UNCHANGED <<op, pf_packet_data, pf_min_pts, pf_max_pts, filterVars, decVars,
                 keyVars, seekVars, stateVars>>

FileFlags == {fl \in [key : BOOLEAN, inStream : BOOLEAN, ok : BOOLEAN] : fl.ok => fl.inStream}

Quirks(m) ==
  {[kind |-> "none", at |-> 0]}
    \cup {[kind |-> k, at |-> i] : k \in {"bad", "nopts"}, i \in 1..m}
    \cup {[kind |-> "swap", at |-> i] : i \in 1..(m - 1)}

\* pts of the i-th packet: ten ticks apart, one packet possibly without pts, or
\* one adjacent pair in swapped presentation order.
PtsAt(i, q) ==
  IF q.kind = "nopts" /\ q.at = i THEN NoPts
  ELSE IF q.kind = "swap" /\ q.at = i THEN 10 * (i + 1)
  ELSE IF q.kind = "swap" /\ q.at + 1 = i THEN 10 * (i - 1)
  ELSE 10 * i

FileOf(fl, q, f, K) ==
  [packets |-> [i \in 1..Len(fl) |->
                  [ord |-> i - 1, pts |-> PtsAt(i, q), key |-> fl[i].key,
                   inStream |-> fl[i].inStream, ok |-> fl[i].ok,
                   bad |-> (q.kind = "bad" /\ q.at = i)]],
   fault |-> f, K |-> K]

\* What may go wrong with a file: av.open raises; the container has no video
\* stream (container.streams.video[0] raises IndexError, lines 467 and 619);
\* container.seek raises.
Faults == {"none", "open", "novideo", "seek"}

SomeFile(len) ==
  \E m \in 0..len :
    \E fl \in [1..m -> FileFlags], q \in Quirks(m), f \in Faults :
      \E K \in (IF f = "none" THEN 0..MaxK ELSE {0}) :
        file = FileOf(fl, q, f, K)

\* FileFrameIterator.frame_iterator, then the caller's own selection: the packets
\* of the file the packet_stream holds, numbered as in the file.
StreamOf(f) == SelectSeq(f.packets, LAMBDA p : p.inStream)

Ev(e, pts) == [e |-> e, pts |-> pts]

\* container.seek(pts, any_frame=False, backward=True): demuxing resumes at the
\* last keyframe whose pts is at most the target, at the file's start if none.
SeekIndex(ps, target) ==
  LET keys == {i \in 1..Len(ps) : ps[i].key /\ ps[i].pts # NoPts /\ ps[i].pts <= target}
  IN IF keys = {} THEN 1 ELSE CHOOSE i \in keys : \A j \in keys : j <= i

\* codec_context.decode(packet) on a freshly opened container's decoder: a
\* packet that is bad, or that needs a reference the decoder was never given,
\* raises; otherwise its frame (named by pts) comes out K packets later.
SeekDecode(ctx, p, K) ==
  IF p.bad \/ (~p.key /\ ~ctx.hasRef)
    THEN [ctx |-> ctx, frames |-> << >>, raised |-> TRUE]
    ELSE LET b == Append(ctx.buffer, p.pts) IN
         IF Len(b) > K
           THEN [ctx |-> [buffer |-> Tail(b), hasRef |-> TRUE], frames |-> <<Head(b)>>,
                 raised |-> FALSE]
           ELSE [ctx |-> [buffer |-> b, hasRef |-> TRUE], frames |-> << >>,
                 raised |-> FALSE]

FreshContext == [buffer |-> << >>, hasRef |-> FALSE]

\* lines 635 and 645: the range test and the stop test
InRangeMutant(pts, start_pts, end_pts) == start_pts <= pts /\ pts < end_pts

InRange(pts, start_pts, end_pts) == start_pts <= pts /\ pts <= end_pts

PastEnd(pts, end_pts) == pts > end_pts

\* decode_group_by_pts_range, lines 630-646: the demux loop from packet i on.
\* Comparing a pts with an absent end_pts raises TypeError.
RECURSIVE RangeLoop(_, _, _, _, _, _, _)
RangeLoop(f, i, ctx, frames, log, start_pts, end_pts) ==
  IF i > Len(f.packets)
    THEN [ctx |-> ctx, frames |-> frames, log |-> log, raised |-> FALSE]
    ELSE LET p == f.packets[i] IN
         IF p.pts = NoPts
           THEN RangeLoop(f, i + 1, ctx, frames, log, start_pts, end_pts)
         ELSE IF end_pts = NoPts
           THEN [ctx |-> ctx, frames |-> frames, log |-> log, raised |-> TRUE]
         ELSE LET r == IF InRange(p.pts, start_pts, end_pts)
                         THEN SeekDecode(ctx, p, f.K)
                         ELSE [ctx |-> ctx, frames |-> << >>, raised |-> FALSE]
                  log2 == IF InRange(p.pts, start_pts, end_pts)
                            THEN Append(log, Ev("decode", p.pts))
                            ELSE Append(log, Ev("skip", p.pts))
              IN IF PastEnd(p.pts, end_pts)
                   THEN [ctx |-> r.ctx, frames |-> frames \o r.frames, log |-> log2,
                         raised |-> FALSE]
                   ELSE RangeLoop(f, i + 1, r.ctx, frames \o r.frames, log2,
                                  start_pts, end_pts)

\* decode_group_by_pts_range (lines 606-660).  av.open and the choice of the
\* video stream are outside the try; a raising seek or comparison leaves
\* through `finally`, which closes the handle.
decode_group_by_pts_range(f, start_pts, end_pts) ==
  IF f.fault = "open"
    THEN [frames |-> << >>, raised |-> TRUE, log |-> <<Ev("open_failed", NoPts)>>]
  ELSE IF f.fault = "novideo"
    THEN [frames |-> << >>, raised |-> TRUE,
          log |-> <<Ev("open", NoPts), Ev("no_video", NoPts)>>]
  ELSE IF f.fault = "seek" \/ start_pts = NoPts
    THEN [frames |-> << >>, raised |-> TRUE,
          log |-> <<Ev("open", NoPts), Ev("seek_failed", start_pts), Ev("close", NoPts)>>]
  ELSE LET r == RangeLoop(f, SeekIndex(f.packets, start_pts), FreshContext, << >>,
                          <<Ev("open", NoPts), Ev("seek", start_pts)>>, start_pts, end_pts)
       IN IF r.raised
            THEN [frames |-> r.frames, raised |-> TRUE,
                  log |-> Append(r.log, Ev("close", NoPts))]
            ELSE [frames |-> r.frames \o r.ctx.buffer, raised |-> FALSE,
                  log |-> r.log \o <<Ev("flush", NoPts), Ev("close", NoPts)>>]

\* line 487, with range inclusion in place of membership
PtsMatchesMutant(pts, group_packets) ==
  /\ group_packets[1].pts <= pts
  /\ pts <= group_packets[Len(group_packets)].pts

\* line 487: the demuxed packet's pts is the pts of some packet of the group
PtsMatches(pts, group_packets) ==
  \E j \in 1..Len(group_packets) : group_packets[j].pts = pts

\* decode_group_with_seek, lines 478-503: the demux loop from packet i on.
RECURSIVE SeekLoop(_, _, _, _, _, _)
SeekLoop(f, i, ctx, frames, log, group_packets) ==
  IF i > Len(f.packets)
    THEN [ctx |-> ctx, frames |-> frames, log |-> log]
    ELSE LET p == f.packets[i]
             last_packet == group_packets[Len(group_packets)]
         IN IF p.pts = NoPts
              THEN SeekLoop(f, i + 1, ctx, frames, log, group_packets)
            ELSE LET hit == PtsMatches(p.pts, group_packets)
                     r == IF hit THEN SeekDecode(ctx, p, f.K)
                                 ELSE [ctx |-> ctx, frames |-> << >>, raised |-> FALSE]
                     log2 == Append(log, Ev(IF hit THEN "decode" ELSE "skip", p.pts))
                 IN IF last_packet.pts # NoPts /\ p.pts > last_packet.pts
                      THEN [ctx |-> r.ctx, frames |-> frames \o r.frames, log |-> log2]
                      ELSE SeekLoop(f, i + 1, r.ctx, frames \o r.frames, log2,
                                    group_packets)

\* decode_group_with_seek (lines 442-517)
decode_group_with_seek(f, group_packets) ==
  IF group_packets = << >>
    THEN [frames |-> << >>, raised |-> FALSE, log |-> << >>]
  ELSE IF group_packets[1].pts = NoPts
    THEN [frames |-> << >>, raised |-> FALSE, log |-> << >>]
  ELSE IF f.fault = "open"
    THEN [frames |-> << >>, raised |-> TRUE, log |-> <<Ev("open_failed", NoPts)>>]
  ELSE IF f.fault = "novideo"
    THEN [frames |-> << >>, raised |-> TRUE,
          log |-> <<Ev("open", NoPts), Ev("no_video", NoPts)>>]
  ELSE IF f.fault = "seek"
    THEN [frames |-> << >>, raised |-> TRUE,
          log |-> <<Ev("open", NoPts), Ev("seek_failed", group_packets[1].pts),
                    Ev("close", NoPts)>>]
  ELSE LET r == SeekLoop(f, SeekIndex(f.packets, group_packets[1].pts), FreshContext,
                         << >>, <<Ev("open", NoPts), Ev("seek", group_packets[1].pts)>>,
                         group_packets)
       IN [frames |-> r.frames \o r.ctx.buffer, raised |-> FALSE,
           log |-> r.log \o <<Ev("flush", NoPts), Ev("close", NoPts)>>]

\* lines 577-581: a matching packet starts the current group if there is none,
\* and is its end so far
ExtendGroupMutant(cur, p) ==
  <<[start_no |-> p.ord, start_pts |-> p.pts,
     end_no |-> IF cur = << >> THEN p.ord ELSE cur[1].end_no,
     end_pts |-> IF cur = << >> THEN p.pts ELSE cur[1].end_pts]>>

ExtendGroup(cur, p) ==
  <<[start_no |-> IF cur = << >> THEN p.ord ELSE cur[1].start_no,
     start_pts |-> IF cur = << >> THEN p.pts ELSE cur[1].start_pts,
     end_no |-> p.ord, end_pts |-> p.pts]>>

\* group_packets_by_pts_and_decode_streaming, lines 570-592: the first pass.
\* cur is (current_group_start, current_group_end), << >> for None.
\* The first pass cut short after one packet of the stream.
Pass1Mutant(s, i, cur, bounds, calls) ==
  IF s = << >>
    THEN [bounds |-> << >>, calls |-> << >>]
    ELSE [bounds |-> IF filter_func(s[1]) THEN ExtendGroup(<< >>, s[1]) ELSE << >>,
          calls |-> <<s[1]>>]

\* calls are the packets filter_func was called on (line 577).
RECURSIVE Pass1(_, _, _, _, _)
Pass1(s, i, cur, bounds, calls) ==
  IF i > Len(s)
    THEN [bounds |-> IF cur # << >> THEN Append(bounds, cur[1]) ELSE bounds,
          calls |-> calls]
    ELSE LET p == s[i] IN
         IF filter_func(p)
           THEN Pass1(s, i + 1, ExtendGroup(cur, p), bounds, Append(calls, p))
           ELSE IF cur # << >>
                  THEN Pass1(s, i + 1, << >>, Append(bounds, cur[1]), Append(calls, p))
                  ELSE Pass1(s, i + 1, << >>, bounds, Append(calls, p))

\* Lines 595-604: resolve boundaries from the i-th on, up to the first one that
\* gives frames (they are yielded), an exception, or the end.
RECURSIVE Pass2(_, _, _, _)
Pass2(f, bounds, i, log) ==
  IF i > Len(bounds)
    THEN [pc |-> "done", next |-> i, yield |-> << >>, log |-> log]
    ELSE LET r == decode_group_by_pts_range(f, bounds[i].start_pts, bounds[i].end_pts) IN
         IF r.raised
           THEN [pc |-> "raised", next |-> i, yield |-> << >>, log |-> log \o r.log]
           ELSE IF r.frames # << >>
             THEN [pc |-> "yielded", next |-> i + 1, yield |-> <<r.frames>>,
                   log |-> log \o r.log]
             ELSE Pass2(f, bounds, i + 1, log \o r.log)

\* The consumer calls next() on group_packets_by_pts_and_decode_streaming's
\* result: the first call runs the whole first pass.
StreamingNext ==
  /\ op = "streaming"
  /\ sk_pc \in {"start", "yielded"}
  /\ LET pass1 == IF sk_pc = "start"
                    THEN Pass1(StreamOf(file), 1, << >>, << >>, << >>)
                    ELSE [bounds |-> group_boundaries, calls |-> << >>]
         bounds == pass1.bounds
         r == Pass2(file, bounds, IF sk_pc = "start" THEN 1 ELSE sk_next, io_log)
     IN /\ group_boundaries' = bounds
        /\ filter_calls' = filter_calls \o pass1.calls
        /\ sk_pc' = r.pc
        /\ sk_next' = r.next
        /\ sk_out' = sk_out \o r.yield
        /\ io_log' = r.log
  /\ UNCHANGED <<op, file, pts_range, packet_stream, started, normalized_streams,
                 stream_iterator, cur_stream, parent_done, runs, inOrder, decVars,
                 keyVars, stateVars, ptsVars>>

\* The packets of the caller's stream that match: the group handed to
\* decode_group_with_seek.
GroupOf(f) == SelectSeq(StreamOf(f), filter_func)

\* A call of decode_group_with_seek(filename, group_packets).
SeekCall ==
  /\ op = "seek"
  /\ sk_pc = "start"
  /\ LET r == decode_group_with_seek(file, GroupOf(file)) IN
       /\ sk_pc' = IF r.raised THEN "raised" ELSE "done"
       /\ sk_out' = IF r.raised THEN sk_out ELSE <<r.frames>>
       /\ io_log' = r.log
  /\ UNCHANGED <<op, file, group_boundaries, sk_next, pts_range, filterVars, decVars,
                 keyVars, stateVars, ptsVars>>

\* group_packets_by_pts_and_decode (lines 533-554) from the i-th packet of the
\* stream on, with the packets collected in grp, up to the first group that
\* gives frames (they are yielded), an exception, or the end.  After the yield
\* in the loop the group is emptied; the yield of the final group is the last
\* step, marked by a position past the stream's end.
RECURSIVE InMemoryScan(_, _, _, _, _)
InMemoryScan(f, s, i, grp, log) ==
  IF i > Len(s) + 1
    THEN [pc |-> "done", next |-> i, yield |-> << >>, log |-> log]
  ELSE IF i = Len(s) + 1 \/ ~filter_func(s[i])
    THEN IF grp = << >>
           THEN IF i = Len(s) + 1
                  THEN [pc |-> "done", next |-> i, yield |-> << >>, log |-> log]
                  ELSE InMemoryScan(f, s, i + 1, << >>, log)
           ELSE LET r == decode_group_with_seek(f, grp) IN
                IF r.raised
                  THEN [pc |-> "raised", next |-> i, yield |-> << >>,
                        log |-> log \o r.log]
                ELSE IF r.frames # << >>
                  THEN [pc |-> "yielded", next |-> i + 1, yield |-> <<r.frames>>,
                        log |-> log \o r.log]
                ELSE IF i = Len(s) + 1
                  THEN [pc |-> "done", next |-> i, yield |-> << >>, log |-> log \o r.log]
                  ELSE InMemoryScan(f, s, i + 1, << >>, log \o r.log)
  ELSE InMemoryScan(f, s, i + 1, Append(grp, s[i]), log)

\* The consumer calls next() on group_packets_by_pts_and_decode's result.
InMemoryNext ==
  /\ op = "inmemory"
  /\ sk_pc \in {"start", "yielded"}
  /\ LET r == InMemoryScan(file, StreamOf(file), sk_next, << >>, io_log) IN
       /\ sk_pc' = r.pc
       /\ sk_next' = r.next
       /\ sk_out' = sk_out \o r.yield
       /\ io_log' = r.log
  /\ UNCHANGED <<op, file, group_boundaries, pts_range, filterVars, decVars, keyVars,
                 stateVars, ptsVars>>

\* A call of decode_group_by_pts_range(filename, start_pts, end_pts).
RangeCall ==
  /\ op = "range"
  /\ sk_pc = "start"
  /\ LET r == decode_group_by_pts_range(file, pts_range.start_pts, pts_range.end_pts) IN
       /\ sk_pc' = IF r.raised THEN "raised" ELSE "done"
       /\ sk_out' = IF r.raised THEN sk_out ELSE <<r.frames>>
       /\ io_log' = r.log
  /\ UNCHANGED <<op, file, group_boundaries, sk_next, pts_range, filterVars, decVars,
                 keyVars, stateVars, ptsVars>>

\* The timestamps a caller may name: none, a packet's, or one between two.
PtsValues(len) == {NoPts} \cup {5 * j : j \in 1..(2 * len + 1)}

NoRange == [start_pts |-> NoPts, end_pts |-> NoPts]

\* The range call reads the whole file, whatever the caller's stream holds.
WholeFile(len) ==
  \E m \in 0..len :
    \E k \in [1..m -> BOOLEAN], q \in Quirks(m), f \in Faults :
      \E K \in (IF f = "none" THEN 0..MaxK ELSE {0}) :
        file = FileOf([i \in 1..m |-> [key |-> k[i], inStream |-> TRUE, ok |-> TRUE]],
                      q, f, K)

SeekStart ==
  /\ sk_pc = "start"
  /\ group_boundaries = << >>
  /\ sk_next = 1
  /\ sk_out = << >>
  /\ io_log = << >>

\* ----------------------------------------------------------- specifications
IdleFilter ==
  /\ packet_stream = MultiSource(FALSE, FALSE, << >>)
  /\ FilterStart

IdleDec ==
  /\ DecInputs({[packets |-> << >>, failAt |-> 0, K |-> 0]})
  /\ max_packets = [set |-> FALSE, n |-> 0]
  /\ codec_context.reset = FALSE
  /\ pending = << >>
  /\ NoDisplay

IdleKey == KeyInputs({<< >>})

IdleSeek ==
  /\ file = FileOf(<< >>, [kind |-> "none", at |-> 0], "none", 0)
  /\ SeekStart
  /\ pts_range = NoRange

IdleState ==
  /\ sf_K = 0
  /\ StateStart

IdlePts ==
  /\ pf_packet_data = [ord |-> 0, pts |-> NoPts]
  /\ pf_min_pts = 0
  /\ pf_max_pts = NoPts
  /\ pf_result = << >>

InitFilter ==
  /\ op = "filter"
  /\ FilterSource(MaxLen, MaxStreams)
  /\ FilterStart
  /\ IdleDec /\ IdleKey /\ IdleSeek /\ IdleState
  /\ IdlePts

InitDec ==
  /\ op = "flush"
  /\ DecInputs(DecSources(MaxLen))
  /\ codec_context.reset = FALSE
  /\ pending = << >>
  /\ NoDisplay
  /\ IdleFilter /\ IdleKey /\ IdleSeek /\ IdleState
  /\ IdlePts

InitPipeline ==
  /\ op = "pipeline"
  /\ PipelineInputs(MaxLen)
  /\ IdleFilter /\ IdleKey /\ IdleSeek /\ IdleState
  /\ IdlePts

InitKey ==
  /\ op = "keyframe"
  /\ KeyInputs(KeySeqs(MaxLen))
  /\ IdleFilter /\ IdleDec /\ IdleSeek /\ IdleState
  /\ IdlePts

InitSeek ==
  /\ \/ /\ op \in {"seek", "streaming", "inmemory"}
        /\ SomeFile(MaxLen)
        /\ pts_range = NoRange
     \/ /\ op = "range"
        /\ WholeFile(MaxLen)
        /\ \E s \in PtsValues(MaxLen), e \in PtsValues(MaxLen) :
              pts_range = [start_pts |-> s, end_pts |-> e]
  /\ SeekStart
  /\ IdleFilter /\ IdleDec /\ IdleKey /\ IdleState
  /\ IdlePts

InitPts ==
  /\ op = "pts_filter"
  /\ \E pts \in {NoPts} \cup (0..MaxPts) : pf_packet_data = [ord |-> 0, pts |-> pts]
  /\ pf_min_pts \in 0..MaxPts
  /\ pf_max_pts \in {NoPts} \cup (0..MaxPts)
  /\ pf_result = << >>
  /\ IdleFilter /\ IdleDec /\ IdleKey /\ IdleSeek /\ IdleState

InitState ==
  /\ op \in {"stateful", "compare"}
  /\ sf_K \in 0..MaxK
  /\ StateStart
  /\ IdleFilter /\ IdleDec /\ IdleKey /\ IdleSeek
  /\ IdlePts

NextFilter ==
  \/ ParentNext
  \/ \E i \in 1..Len(runs) : RunNext(i)

NextDec == DecNext

NextPipeline ==
  \/ DisplayNext
  \/ NextInvocation

NextKey ==
  \/ KeyframeNext
  \/ \E i \in 1..Len(kf_iters) : GroupRead(i)

NextSeek ==
  \/ SeekCall
  \/ StreamingNext
  \/ InMemoryNext
  \/ RangeCall

NextState ==
  \/ StatefulCall
  \/ CompareStep

SpecFilter == InitFilter /\ [][NextFilter]_vars

SpecDec == InitDec /\ [][NextDec]_vars

SpecPipeline == InitPipeline /\ [][NextPipeline]_vars

SpecState == InitState /\ [][NextState]_vars

SpecKey == InitKey /\ [][NextKey]_vars

SpecSeek == InitSeek /\ [][NextSeek]_vars

SpecPts == InitPts /\ [][PtsFilterCall]_vars

Init ==
  InitFilter \/ InitDec \/ InitPipeline \/ InitKey \/ InitSeek \/ InitState \/ InitPts

Next == NextFilter \/ NextDec \/ NextPipeline \/ NextKey \/ NextSeek \/ NextState \/ PtsFilterCall

Spec == Init /\ [][Next]_vars

\* ------------------------------------------------- the filter's claims
RunOuts == [i \in 1..Len(runs) |-> runs[i].out]

FilterDone == parent_done /\ AllRunsDone

TheStream == packet_stream.streams[1]

SingleList == ~packet_stream.multi /\ ~packet_stream.oneShot

SingleOneShot == ~packet_stream.multi /\ packet_stream.oneShot

\* The maximal segments of s in which every packet matches and each ordinal is
\* the previous one plus 1 (the Run of the data model).
RECURSIVE MaximalRunsFrom(_, _, _)
MaximalRunsFrom(s, i, acc) ==
  IF i > Len(s) THEN acc
  ELSE IF ~s[i].ok THEN MaximalRunsFrom(s, i + 1, acc)
  ELSE IF i > 1 /\ s[i - 1].ok /\ s[i].ord = s[i - 1].ord + 1
    THEN MaximalRunsFrom(s, i + 1,
           [acc EXCEPT ![Len(acc)] = Append(@, s[i])])
    ELSE MaximalRunsFrom(s, i + 1, Append(acc, <<s[i]>>))

MaximalRuns(s) == MaximalRunsFrom(s, 1, << >>)

\* What _process_single_stream yields for stream s read from its start by a
\* consumer that drains each run before asking for the next one.
RECURSIVE CodeRunsFrom(_, _, _, _)
CodeRunsFrom(s, i, acc, open) ==
  IF i > Len(s) THEN acc
  ELSE IF ~open
    THEN IF filter_func(s[i])
           THEN CodeRunsFrom(s, i + 1, Append(acc, FirstYield(s[i])), TRUE)
           ELSE CodeRunsFrom(s, i + 1, acc, FALSE)
    ELSE LET run == acc[Len(acc)] IN
         IF filter_func(s[i]) /\ IsConsecutive(s[i].ord, run[Len(run)].ord)
           THEN CodeRunsFrom(s, i + 1, [acc EXCEPT ![Len(acc)] = Append(@, s[i])], TRUE)
           ELSE CodeRunsFrom(s, i + 1, acc, FALSE)

CodeRuns(s) == CodeRunsFrom(s, 1, << >>, FALSE)

\* The state machine and CodeRuns agree (a check of the model against itself).
CodeRunsAgree ==
  (FilterDone /\ inOrder /\ SingleList) => RunOuts = CodeRuns(TheStream)

\* C1: for a single packet stream whose runs are drained in order, the yielded
\* runs are exactly the maximal matching, ordinal-contiguous runs of the source.
\* (Stated for a re-iterable source, from which input-form detection consumes
\* nothing.)
C1_YieldsMaximalRuns ==
  (FilterDone /\ inOrder /\ SingleList) => RunOuts = MaximalRuns(TheStream)

\* How often packet p was delivered, over all runs.
Deliveries(p) ==
  Cardinality({ij \in UNION {{<<i, j>> : j \in 1..Len(runs[i].out)} : i \in 1..Len(runs)} :
                 runs[ij[1]].out[ij[2]] = p})

\* C2: the packet that ends a run is not lost, so every matching source packet
\* appears in exactly one yielded run.
C2_EveryMatchInOneRun ==
  (FilterDone /\ inOrder /\ SingleList) =>
     \A j \in 1..Len(TheStream) :
        TheStream[j].ok => Deliveries(TheStream[j]) = 1

\* C3: with a single one-shot packet iterator, the first source packet, when it
\* matches, is the first packet of the first run.
C3_FirstPacketReinjected ==
  (FilterDone /\ inOrder /\ SingleOneShot /\ TheStream # << >> /\ TheStream[1].ok) =>
     /\ Len(runs) >= 1
     /\ runs[1].out # << >>
     /\ runs[1].out[1] = TheStream[1]

\* C4: in every run, at every moment and under every consumption order, every
\* delivered packet matches the predicate and each ordinal is the previous + 1.
C4_RunsMatchAndContiguous ==
  \A i \in 1..Len(runs) :
     \A j \in 1..Len(runs[i].out) :
        /\ runs[i].out[j].ok
        /\ j > 1 => runs[i].out[j].ord = runs[i].out[j - 1].ord + 1

\* A run of two packets, ended by a matching packet that is not adjacent.
C4_Witness ==
  \E i \in 1..Len(runs) :
     /\ runs[i].st = "done"
     /\ Len(runs[i].out) >= 2
     /\ \E j \in 1..Len(packet_stream.streams[runs[i].stream]) :
          LET p == packet_stream.streams[runs[i].stream][j] IN
            /\ p.ok
            /\ p.ord > runs[i].last + 1

\* C5: for a sequence of streams the yielded runs are those of the first stream
\* filtered alone, then those of the second, and so on.
C5_StreamsFilteredInTurn ==
  (FilterDone /\ inOrder /\ packet_stream.multi) =>
     RunOuts = Flatten([i \in 1..Len(packet_stream.streams) |->
                          CodeRuns(packet_stream.streams[i])])

NoAdjacentMatches(s) ==
  \A i, j \in 1..Len(s) : (s[i].ok /\ s[j].ok) => s[j].ord # s[i].ord + 1

Singletons(s) == [i \in 1..Len(s) |-> <<s[i]>>]

\* C6: when no two matching packets have adjacent ordinals, the filter yields
\* one singleton run per matching packet, in source order.
C6_SparseGivesSingletons ==
  (FilterDone /\ inOrder /\ ~packet_stream.multi /\ NoAdjacentMatches(TheStream)) =>
     RunOuts = Singletons(SelectSeq(TheStream, filter_func))

\* C7: every delivered pair is a pair of the source, and over the concatenation
\* of all runs the pairs are in source order without duplication (the source's
\* ordinals increase strictly, so: by strictly increasing ordinal).
C7_SourceOrderNoDuplicates ==
  LET all == Flatten(RunOuts)
      src == Flatten(packet_stream.streams)
  IN /\ \A j \in 1..Len(all) : \E h \in 1..Len(src) : src[h] = all[j]
     /\ \A j \in 1..(Len(all) - 1) : all[j].ord < all[j + 1].ord

\* C8: no run is empty: a run that has been advanced at all has delivered a
\* packet, under every order of parent and run advances.
C8_NoEmptyRun ==
  \A i \in 1..Len(runs) : runs[i].st # "new" => Len(runs[i].out) >= 1

\* A run drained after the parent had already been advanced past it.
C8_Witness ==
  /\ ~inOrder
  /\ \E i \in 1..Len(runs) : runs[i].st = "done" /\ i < Len(runs)

\* ------------------------------------------------- the other claims
\* C9: an empty packet sequence gives an empty result and no error: the filter
\* yields no run, the keyframe grouper no group, decode_all_packets_with_flush
\* no entry, the streaming grouper no frame list (and opens nothing), and
\* decode_group_with_seek returns the empty frame list (and opens nothing).
C9_EmptyInputEmptyResult ==
  /\ (op = "filter" /\ started /\ Flatten(packet_stream.streams) = << >>) =>
        (parent_done /\ runs = << >>)
  /\ (op = "keyframe" /\ kf_pc # "start" /\ kf_stream = << >>) =>
        (kf_pc = "done" /\ kf_out = << >>)
  /\ (op = "flush" /\ dec_pc # "start" /\ packet_iterator.packets = << >>
        /\ packet_iterator.failAt = 0) =>
        (dec_pc = "done" /\ dec_end = "exhausted" /\ dec_out = << >>)
  /\ (op = "streaming" /\ sk_pc # "start" /\ StreamOf(file) = << >>) =>
        (sk_pc = "done" /\ sk_out = << >> /\ io_log = << >>)
  /\ (op = "seek" /\ sk_pc # "start" /\ GroupOf(file) = << >>) =>
        (sk_pc = "done" /\ sk_out = << << >> >> /\ io_log = << >>)

\* The list of two empty one-shot iterators of test_empty_streams, filtered.
C9_Witness ==
  /\ op = "filter"
  /\ packet_stream = [multi |-> TRUE, oneShot |-> FALSE, innerOneShot |-> TRUE,
                      streams |-> << << >>, << >> >>]
  /\ normalized_streams = <<1, 1, 2>>
  /\ parent_done

FlushCount == Cardinality({i \in 1..Len(dec_log) : dec_log[i] = "flush"})

DecodeCount == Cardinality({i \in 1..Len(dec_log) : dec_log[i] = "decode"})

ScanEnded == dec_end \in {"exhausted", "limit"}

\* C10 as stated: every invocation whose scan ended, by exhaustion or by the
\* limit, has flushed the decoder exactly once.
C10_FlushOncePerInvocation == ScanEnded => FlushCount = 1

\* C10 amended: the decoder is never flushed twice and never decoded after the
\* flush; an invocation whose scan ended by exhaustion or by the limit has
\* flushed exactly once if it decoded a packet, and not at all if it got none.
C10_FlushOnceAfterLastDecode ==
  /\ FlushCount <= 1
  /\ \A i \in 1..Len(dec_log) : dec_log[i] = "flush" => i = Len(dec_log)
  /\ ScanEnded => FlushCount = (IF DecodeCount >= 1 THEN 1 ELSE 0)

\* The scan stopped at max_packets with packets left in the source, and flushed.
C10_Witness ==
  /\ dec_end = "limit"
  /\ dec_pos < Len(packet_iterator.packets)
  /\ DecodeCount >= 2
  /\ dec_log[Len(dec_log)] = "flush"

\* ------------------------------------------- the decode engine's claims
PerPacket == SelectSeq(dec_out, LAMBDA e : e.no # -1)

Sentinels == SelectSeq(dec_out, LAMBDA e : e.no = -1)

Drained == dec_pc = "done"

SourceLen == Len(packet_iterator.packets)

Min(a, b) == IF a <= b THEN a ELSE b

RECURSIVE FrameCount(_)
FrameCount(out) ==
  IF out = << >> THEN 0 ELSE Len(Head(out).frames) + FrameCount(Tail(out))

\* C11: once the consumer has drained a call that processed at least one packet
\* and whose scan ended by exhaustion or by the limit, the output holds exactly
\* one entry with ordinal -1 and that entry is the last one.
C11_FlushEntryLast ==
  (op = "flush" /\ Drained /\ ScanEnded /\ dec_pos >= 1) =>
     /\ Len(Sentinels) = 1
     /\ dec_out[Len(dec_out)].no = -1

\* C12: with a source of zero packets the call never obtains a decoder state,
\* never calls the decoder (no decode, no flush) and emits no entry.
C12_ZeroPacketsNothingDone ==
  (op = "flush" /\ SourceLen = 0) =>
     /\ ~codec_context.set
     /\ dec_log = << >>
     /\ dec_out = << >>

\* An empty source, a limit given, the call drained.
C12_Witness ==
  /\ op = "flush"
  /\ SourceLen = 0
  /\ max_packets = [set |-> TRUE, n |-> 2]
  /\ Drained
  /\ dec_end = "exhausted"

NoBadDecoded == \A i \in 1..dec_pos : ~packet_iterator.packets[i].bad

\* C13: when no decoded packet is bad and the scan ended by exhaustion or by
\* the limit, the frames of all entries (per-packet and flush) number exactly
\* the packets decoded, whatever the decoder's delay K: all N packets of the
\* source when it was exhausted.
C13_FramesConserved ==
  (op = "flush" /\ Drained /\ ScanEnded /\ NoBadDecoded) =>
     /\ FrameCount(dec_out) = dec_pos
     /\ dec_end = "exhausted" => FrameCount(dec_out) = SourceLen

\* Three packets through a decoder that holds back two: one frame comes out of
\* a per-packet entry and two out of the flush entry.
C13_Witness ==
  /\ op = "flush"
  /\ Drained
  /\ dec_end = "exhausted"
  /\ NoBadDecoded
  /\ packet_iterator.K = 2
  /\ SourceLen = 3
  /\ Len(dec_out) = 4
  /\ Len(dec_out[3].frames) = 1
  /\ dec_out[4].no = -1
  /\ Len(dec_out[4].frames) = 2

Allowed == IF max_packets.set THEN Min(max_packets.n, SourceLen) ELSE SourceLen

\* C14: the per-packet entries never outnumber min(max_packets, n), and once
\* the scan has ended they are the first min(max_packets, n) source packets in
\* order (the first n with max_packets absent).
C14_AtMostMaxPackets ==
  op = "flush" =>
     /\ Len(PerPacket) <= Allowed
     /\ (Drained /\ ScanEnded) =>
          [i \in 1..Len(PerPacket) |-> PerPacket[i].no]
            = [i \in 1..Allowed |-> packet_iterator.packets[i].ord]

\* C15: no exception leaves the generator; when the source raises, the
\* generator is finished and its output is the entries of the packets read
\* before the error.
C15_ScanErrorEndsQuietly ==
  op = "flush" =>
     /\ dec_end # "raised"
     /\ dec_end = "error" =>
          /\ Drained
          /\ [i \in 1..Len(dec_out) |-> dec_out[i].no]
               = [i \in 1..(packet_iterator.failAt - 1) |-> packet_iterator.packets[i].ord]

\* The source raised at its third read, after two entries.
C15_Witness ==
  /\ op = "flush"
  /\ dec_end = "error"
  /\ packet_iterator.failAt = 3
  /\ Len(dec_out) = 2

\* C16: a packet the decoder raises on gets the entry (ordinal, []), the scan
\* goes on (it never ends by a decode failure, every packet read has its
\* entry, an exhausted scan has read the whole source) and the flush still
\* takes place.
C16_DecodeFailureSwallowed ==
  op = "flush" =>
     /\ dec_end = "error" => packet_iterator.failAt = dec_pos + 1
     /\ Len(PerPacket) = dec_pos
     /\ \A i \in 1..Len(PerPacket) :
          /\ PerPacket[i].no = packet_iterator.packets[i].ord
          /\ packet_iterator.packets[i].bad => PerPacket[i].frames = << >>
     /\ dec_end = "exhausted" => dec_pos = SourceLen
     /\ (Drained /\ ScanEnded /\ dec_pos >= 1) => dec_log[Len(dec_log)] = "flush"

\* The first of three packets fails to decode; the two after it are decoded
\* and give their frames, and the decoder is flushed.
C16_Witness ==
  /\ op = "flush"
  /\ SourceLen = 3
  /\ packet_iterator.packets[1].bad
  /\ packet_iterator.K = 0
  /\ Drained
  /\ dec_end = "exhausted"
  /\ dec_out[1].frames = << >>
  /\ dec_out[2].frames # << >>
  /\ dec_out[3].frames # << >>
  /\ dec_log = <<"decode", "decode", "decode", "flush">>

\* C17: in the pipeline no decode call is made on the stream's decoder state
\* after that state has been flushed.
C17_NoDecodeAfterFlush ==
  op = "pipeline" =>
     \A i \in 1..Len(dec_log) : \A j \in 1..Len(dec_log) :
        (i < j /\ dec_log[i] = "flush") => dec_log[j] # "decode"

\* ---------------------------------- the per-packet decode functions' claims
WithState == {i \in 1..Len(sf_calls) : sf_calls[i].fn = "with_state"}

\* C18: a call of decode_packet_to_frames_with_state without a state returns
\* the codec context of the packet's stream; a call with a state returns that
\* state; either way the decoder called, and the only one whose state the call
\* may change, is the one returned, whether the decode succeeded or failed.
C18_StateThreaded ==
  \A i \in WithState :
     LET c == sf_calls[i] IN
       /\ c.given = None => c.returned = c.packet.stream
       /\ c.given # None => c.returned = c.given
       /\ c.called = c.returned
       /\ c.touched \subseteq {c.returned}

\* A call without a state, then one that hands over the other stream's state
\* and gets a frame from it, then one whose decode fails.
C18_Witness ==
  /\ op = "stateful"
  /\ Len(sf_calls) = 3
  /\ sf_calls[1].given = None
  /\ sf_calls[2].given # None
  /\ sf_calls[2].given # sf_calls[2].packet.stream
  /\ sf_calls[2].frames # << >>
  /\ sf_calls[2].touched = {sf_calls[2].given}
  /\ sf_calls[3].packet.bad
  /\ sf_calls[3].given # None
  /\ sf_calls[3].given # sf_calls[3].packet.stream

KeyframeOnly == \A i \in 1..Len(sf_calls) : sf_calls[i].packet.key

\* C19: on a keyframe-only stream each packet gives as many frames from
\* decode_packet_to_frames as from decode_packet_to_frames_with_state with the
\* state threaded from call to call.
C19_StatelessEqualsStateful ==
  (op = "compare" /\ KeyframeOnly) =>
     \A n \in 1..(Len(sf_calls) \div 2) :
        Len(sf_calls[2 * n - 1].frames) = Len(sf_calls[2 * n].frames)

\* Three keyframe packets through decoders that hold back one packet: the
\* second and third packet give a frame on both sides.
C19_Witness ==
  /\ op = "compare"
  /\ KeyframeOnly
  /\ sf_K = 1
  /\ Len(sf_calls) = 6
  /\ \A i \in 1..6 : ~sf_calls[i].packet.bad
  /\ sf_calls[2].given = None
  /\ sf_calls[4].given = 2
  /\ Len(sf_calls[4].frames) = 1
  /\ Len(sf_calls[6].frames) = 1

\* ----------------------------------------- the keyframe grouper's claims
Passing == SelectSeq(kf_stream, LAMBDA p : p.ok)

PassingKeys == {i \in 1..Len(Passing) : Passing[i].key}

\* The n-th passing keyframe, and the end of the stretch it opens.
NthKey(n) ==
  CHOOSE i \in PassingKeys : Cardinality({j \in PassingKeys : j < i}) = n - 1

StretchEnd(i) ==
  IF \E j \in PassingKeys : j > i
    THEN (CHOOSE j \in PassingKeys : j > i /\ \A k \in PassingKeys : k > i => j <= k) - 1
    ELSE Len(Passing)

\* C20: every group yielded is non-empty, starts with a passing keyframe, holds
\* no other keyframe and no failing packet, and is the stretch of passing
\* packets from its keyframe up to the next passing keyframe, in source order.
C20_GroupsAreKeyframeStretches ==
  op = "keyframe" =>
     /\ Len(kf_out) <= Cardinality(PassingKeys)
     /\ \A n \in 1..Len(kf_out) :
          LET g == kf_out[n] IN
            /\ g # << >>
            /\ g[1].ok /\ g[1].key
            /\ \A i \in 2..Len(g) : g[i].ok /\ ~g[i].key
            /\ g = SubSeq(Passing, NthKey(n), StretchEnd(NthKey(n)))

\* A passing keyframe, a keyframe the predicate rejects, a passing non-keyframe:
\* one group, of the first and the third packet.
C20_Witness ==
  /\ op = "keyframe"
  /\ kf_pc = "done"
  /\ Len(kf_stream) = 3
  /\ kf_stream[1].ok /\ kf_stream[1].key
  /\ ~kf_stream[2].ok /\ kf_stream[2].key
  /\ kf_stream[3].ok /\ ~kf_stream[3].key
  /\ kf_out = << <<kf_stream[1], kf_stream[3]>> >>

\* The passing packets from the first passing keyframe on.
FromFirstKey ==
  IF PassingKeys = {} THEN << >>
  ELSE SubSeq(Passing, CHOOSE i \in PassingKeys : \A j \in PassingKeys : i <= j,
              Len(Passing))

\* C21: once the grouper is drained there is one group per passing keyframe,
\* none without a passing keyframe, and the groups together hold exactly the
\* passing packets from the first passing keyframe on, each once and in order
\* (those before it are dropped); the last group is yielded only when the
\* source is exhausted.
C21_OneGroupPerKeyframe ==
  op = "keyframe" =>
     /\ kf_pc = "done" =>
          /\ Len(kf_out) = Cardinality(PassingKeys)
          /\ Flatten(kf_out) = FromFirstKey
     /\ kf_pc = "yielded_loop" => Len(kf_out) < Cardinality(PassingKeys)
     /\ kf_pc = "yielded_end" =>
          /\ kf_pos = Len(kf_stream)
          /\ Len(kf_out) = Cardinality(PassingKeys)

\* A passing non-keyframe ahead of the first keyframe is dropped; the keyframe
\* and the non-keyframe after it make the only group.
C21_Witness ==
  /\ op = "keyframe"
  /\ kf_pc = "done"
  /\ Len(kf_stream) = 3
  /\ kf_stream[1].ok /\ ~kf_stream[1].key
  /\ kf_stream[2].ok /\ kf_stream[2].key
  /\ kf_stream[3].ok /\ ~kf_stream[3].key
  /\ kf_out = << <<kf_stream[2], kf_stream[3]>> >>

\* ------------------------------------- the grouping pipelines' claims
Stream == StreamOf(file)

Pass1Done == op = "streaming" /\ sk_pc # "start"

\* The maximal stretches of consecutive stream packets that all match, by the
\* index of their first packet.
StretchStarts ==
  {a \in 1..Len(Stream) : Stream[a].ok /\ (a = 1 \/ ~Stream[a - 1].ok)}

StretchLast(a) ==
  CHOOSE b \in a..Len(Stream) :
     /\ \A i \in a..b : Stream[i].ok
     /\ b = Len(Stream) \/ ~Stream[b + 1].ok

NthStretch(n) ==
  CHOOSE a \in StretchStarts : Cardinality({c \in StretchStarts : c < a}) = n - 1

Pass1RecordsStretches ==
  Pass1Done =>
     /\ Len(group_boundaries) = Cardinality(StretchStarts)
     /\ \A n \in 1..Len(group_boundaries) :
          LET a == NthStretch(n)
              b == StretchLast(a)
          IN group_boundaries[n] =
               [start_no |-> Stream[a].ord, start_pts |-> Stream[a].pts,
                end_no |-> Stream[b].ord, end_pts |-> Stream[b].pts]

\* Every packet of the stream matches and exactly one pair of neighbours is not
\* adjacent in ordinal.
OneGapAllMatching ==
  /\ \A i \in 1..Len(Stream) : Stream[i].ok
  /\ Cardinality({i \in 1..(Len(Stream) - 1) : Stream[i + 1].ord # Stream[i].ord + 1}) = 1

\* C22: the first pass records one boundary per maximal stretch of consecutive
\* matching stream packets, with the ordinal and timestamp of its first and
\* last packet; on a stream of matching packets with one ordinal gap that is
\* one boundary, where filter_stream_preserve_consecutivity yields two runs.
C22_BoundariesByPredicateOnly ==
  /\ Pass1RecordsStretches
  /\ (Pass1Done /\ OneGapAllMatching) =>
        /\ Len(group_boundaries) = 1
        /\ Len(CodeRuns(Stream)) = 2

Monotonic ==
  \A i \in 1..Len(Stream) :
     /\ Stream[i].pts # NoPts
     /\ \A j \in 1..Len(Stream) : i < j => Stream[i].pts <= Stream[j].pts

\* C23: every boundary has start ordinal <= end ordinal, and start timestamp
\* <= end timestamp when the stream's timestamps are present and
\* non-decreasing; the boundaries are in source order and their ordinal spans
\* do not overlap.
C23_BoundariesWellFormed ==
  Pass1Done =>
     /\ \A n \in 1..Len(group_boundaries) :
          /\ group_boundaries[n].start_no <= group_boundaries[n].end_no
          /\ Monotonic => group_boundaries[n].start_pts <= group_boundaries[n].end_pts
     /\ \A n \in 1..(Len(group_boundaries) - 1) :
          group_boundaries[n].end_no < group_boundaries[n + 1].start_no

\* A boundary that spans two packets, closed by a packet that does not match.
C23_Witness ==
  /\ Pass1Done
  /\ Monotonic
  /\ Len(Stream) = 3
  /\ ~Stream[3].ok
  /\ Len(group_boundaries) = 1
  /\ group_boundaries[1].start_no < group_boundaries[1].end_no
  /\ group_boundaries[1].start_pts < group_boundaries[1].end_pts

\* ------------------------------------ the seek-and-decode resolvers' claims
EventPts(kind) ==
  LET evs == SelectSeq(io_log, LAMBDA ev : ev.e = kind)
  IN [i \in 1..Len(evs) |-> evs[i].pts]

\* What decode_group_by_pts_range is to read: the file from the keyframe the
\* seek reaches up to the first packet whose timestamp is past end_pts.
SeekStartAt == SeekIndex(file.packets, pts_range.start_pts)

StopSet ==
  {i \in SeekStartAt..Len(file.packets) :
     file.packets[i].pts # NoPts /\ file.packets[i].pts > pts_range.end_pts}

LastRead ==
  IF StopSet = {} THEN Len(file.packets)
  ELSE CHOOSE i \in StopSet : \A j \in StopSet : i <= j

ReadPackets == SubSeq(file.packets, SeekStartAt, LastRead)

WithinRange(p) ==
  p.pts # NoPts /\ pts_range.start_pts <= p.pts /\ p.pts <= pts_range.end_pts

PtsOf(ps) == [i \in 1..Len(ps) |-> ps[i].pts]

\* C24: a call of decode_group_by_pts_range that returns has sought to
\* start_pts, has read on to the first packet past end_pts and no further, has
\* decoded exactly the packets read whose timestamp is in [start_pts, end_pts]
\* (none without timestamp), has flushed once after the last decode, and
\* returns frames of in-range packets only: all of them, in order, when every
\* such packet decodes.
C24_RangeKeepsInclusiveWindow ==
  (op = "range" /\ sk_pc = "done") =>
     LET kept == SelectSeq(ReadPackets, WithinRange)
         rest == SelectSeq(ReadPackets,
                           LAMBDA p : p.pts # NoPts /\ ~WithinRange(p))
     IN /\ io_log[2] = Ev("seek", pts_range.start_pts)
        /\ EventPts("decode") = PtsOf(kept)
        /\ EventPts("skip") = PtsOf(rest)
        /\ Len(EventPts("flush")) = 1
        /\ io_log[Len(io_log) - 1].e = "flush"
        /\ \A i \in 1..Len(sk_out[1]) : \E j \in 1..Len(kept) : kept[j].pts = sk_out[1][i]
        /\ (\A j \in 1..Len(kept) : kept[j].key /\ ~kept[j].bad) => sk_out[1] = PtsOf(kept)

\* Keyframes at 10 and 20, a packet at 30, the range [10, 20], a decoder that
\* holds back one packet: 10 and 20 are decoded, 30 stops the reading, the
\* flush gives the second frame.
C24_Witness ==
  /\ op = "range"
  /\ sk_pc = "done"
  /\ file.K = 1
  /\ pts_range = [start_pts |-> 10, end_pts |-> 20]
  /\ io_log = <<Ev("open", NoPts), Ev("seek", 10), Ev("decode", 10), Ev("decode", 20),
                Ev("skip", 30), Ev("flush", NoPts), Ev("close", NoPts)>>
  /\ sk_out = << <<10, 20>> >>

\* C25: a failure while seeking or decoding one group never aborts the
\* enumeration: on a file that opens, group_packets_by_pts_and_decode_streaming
\* never ends with an exception.
C25_FailedGroupNeverAborts ==
  (op = "streaming" /\ file.fault # "open") => sk_pc # "raised"

\* C26: once exhausted, group_packets_by_pts_and_decode_streaming has yielded
\* one frame list per group found by its first pass, and
\* group_packets_by_pts_and_decode one per maximal stretch of matching packets
\* of its stream.
C26_OneFrameListPerGroup ==
  /\ (op = "streaming" /\ sk_pc = "done") => Len(sk_out) = Len(group_boundaries)
  /\ (op = "inmemory" /\ sk_pc = "done") => Len(sk_out) = Cardinality(StretchStarts)

FrameSet(frames) == {frames[i] : i \in 1..Len(frames)}

\* C27: when the streaming grouper has resolved every boundary of a file that
\* opens and seeks, the frames it got for each boundary are, by timestamp, the
\* frames decode_group_with_seek gives for the in-memory group of the same
\* packets.
C27_StreamingEqualsInMemory ==
  (op = "streaming" /\ sk_pc = "done" /\ file.fault = "none") =>
     \A n \in 1..Len(group_boundaries) :
        LET a == NthStretch(n)
            inMemory == decode_group_with_seek(file, SubSeq(Stream, a, StretchLast(a)))
            streamed == decode_group_by_pts_range(file, group_boundaries[n].start_pts,
                                                  group_boundaries[n].end_pts)
        IN FrameSet(streamed.frames) = FrameSet(inMemory.frames)

\* The upper bound of the target of the resolver's call.
UpperBound ==
  IF op = "range" THEN pts_range.end_pts
  ELSE GroupOf(file)[Len(GroupOf(file))].pts

\* C28: a resolver that returns has submitted to the decoder every packet it
\* demuxed with a timestamp up to the upper bound of its target: the packets it
\* read without decoding are past the upper bound.
C28_DecodesFromKeyframeOn ==
  (op \in {"seek", "range"} /\ sk_pc = "done") =>
     \A i \in 1..Len(io_log) : io_log[i].e = "skip" => io_log[i].pts > UpperBound

\* --------------------------------------- the timestamp predicate's claim
\* C29: filter_by_pts_range returns false for a packet without pts, whatever
\* min_pts and max_pts; for a packet with a pts it returns true exactly when
\* min_pts <= pts <= max_pts, or pts >= min_pts when max_pts is absent.
C29_AbsentPtsFailsFilter ==
  (op = "pts_filter" /\ pf_result # << >>) =>
     LET pts == pf_packet_data.pts IN
       /\ pts = NoPts => pf_result[1] = FALSE
       /\ (pts # NoPts /\ pf_max_pts # NoPts) =>
             (pf_result[1] <=> (pf_min_pts <= pts /\ pts <= pf_max_pts))
       /\ (pts # NoPts /\ pf_max_pts = NoPts) => (pf_result[1] <=> pts >= pf_min_pts)

\* A packet without pts is rejected although no upper limit is given and
\* min_pts is the default.
C29_Witness ==
  /\ op = "pts_filter"
  /\ pf_packet_data.pts = NoPts
  /\ pf_min_pts = 0
  /\ pf_max_pts = NoPts
  /\ pf_result = <<FALSE>>

\* ------------------------------------------ the shared cursor's claim
\* The consumer advanced the parent before a run was drained, and the runs
\* differ from those of in-order draining.
OutOfOrderDiffers ==
  FilterDone /\ SingleList /\ ~inOrder /\ RunOuts # CodeRuns(TheStream)

\* C30: the runs share one cursor with their parent, so the grouping depends
\* on the order of consumption; when every run is drained before the next one
\* is requested, no packet is skipped (the runs together are the matching
\* packets of the source) and none is misattributed (every run is a maximal
\* matching, ordinal-contiguous run of the source).
C30_InOrderDrainingLosesNothing ==
  (FilterDone /\ inOrder /\ SingleList) =>
     /\ Flatten(RunOuts) = SelectSeq(TheStream, filter_func)
     /\ \A i \in 1..Len(runs) :
          \E j \in 1..Len(MaximalRuns(TheStream)) : RunOuts[i] = MaximalRuns(TheStream)[j]

\* ------------------------------------------------ the filter's laziness
SingleStream == op = "filter" /\ ~packet_stream.multi

\* Packets taken so far from the single stream's cursor.
Consumed(started_, stream_iterator_) ==
  IF started_ /\ stream_iterator_ # << >> THEN stream_iterator_[1] ELSE 0

\* Runs that hold their first packet, read but not yet delivered.
HeldBack == Cardinality({i \in 1..Len(runs) : runs[i].st = "new"})

\* The step is a request for a run that was answered with one.
RunRequested == Len(runs') = Len(runs) + 1

\* The step is an advance of a run.
RunAdvanced == Len(runs') = Len(runs) /\ runs' # runs

\* C31: the filter is lazy.  Nothing is read before the first advance of the
\* result; a request for a run takes from the source no matching packet but
\* the one the run starts with; an advance of a run takes at most one packet;
\* and never is more than one packet read that is neither delivered nor
\* dropped.
C31_FilterIsLazy ==
  /\ []((SingleStream /\ ~started) => stream_iterator = << >>)
  /\ [][(SingleStream /\ RunRequested) =>
          LET before == Consumed(started, stream_iterator)
              after == Consumed(started', stream_iterator')
          IN /\ TheStream[after] = runs'[Len(runs')].start
             /\ \A k \in (before + 1)..(after - 1) : ~filter_func(TheStream[k])]_vars
  /\ [][(SingleStream /\ RunAdvanced) =>
          Consumed(started', stream_iterator') - Consumed(started, stream_iterator) <= 1]_vars
  /\ [](SingleStream => HeldBack <= 1)

\* ------------------------------------------- the predicate's evaluations
Pass1AppliesOnce == Pass1Done => filter_calls = Stream

ListFilterAppliesOnce ==
  (FilterDone /\ inOrder /\ SingleList) => filter_calls = TheStream

\* C32: the predicate is applied exactly once to each source packet, in source
\* order: by the first pass of the streaming grouper, and by the filter over a
\* single stream once every run has been drained, in order, and the result is
\* exhausted.
C32_PredicateAppliedOnce ==
  /\ Pass1AppliesOnce
  /\ (FilterDone /\ inOrder /\ op = "filter" /\ ~packet_stream.multi) =>
        filter_calls = TheStream

\* -------------------------------------------- decode_group_with_seek's claim
TargetGroup == GroupOf(file)

\* What decode_group_with_seek is to read: the file from the keyframe the seek
\* reaches up to the first packet whose timestamp is past that of the group's
\* last packet.
GroupSeekAt == SeekIndex(file.packets, TargetGroup[1].pts)

GroupStopSet ==
  {i \in GroupSeekAt..Len(file.packets) :
     /\ file.packets[i].pts # NoPts
     /\ TargetGroup[Len(TargetGroup)].pts # NoPts
     /\ file.packets[i].pts > TargetGroup[Len(TargetGroup)].pts}

GroupLastRead ==
  IF GroupStopSet = {} THEN Len(file.packets)
  ELSE CHOOSE i \in GroupStopSet : \A j \in GroupStopSet : i <= j

InTargetGroup(p) ==
  p.pts # NoPts /\ \E j \in 1..Len(TargetGroup) : TargetGroup[j].pts = p.pts

\* C33: decode_group_with_seek returns the empty list without opening the file
\* when the group is empty or its first packet has no timestamp; otherwise a
\* call that returns has sought to the first packet's timestamp, has read on to
\* the first packet past the last packet's timestamp, has decoded exactly the
\* packets read whose timestamp is that of a packet of the group, and has
\* flushed once, after the last decode.
C33_SeekMatchesByMembership ==
  (op = "seek" /\ sk_pc = "done") =>
     IF TargetGroup = << >> \/ TargetGroup[1].pts = NoPts
       THEN io_log = << >> /\ sk_out = << << >> >>
       ELSE LET read == SubSeq(file.packets, GroupSeekAt, GroupLastRead)
                kept == SelectSeq(read, InTargetGroup)
                rest == SelectSeq(read, LAMBDA p : p.pts # NoPts /\ ~InTargetGroup(p))
            IN /\ io_log[1] = Ev("open", NoPts)
               /\ io_log[2] = Ev("seek", TargetGroup[1].pts)
               /\ EventPts("decode") = PtsOf(kept)
               /\ EventPts("skip") = PtsOf(rest)
               /\ Len(EventPts("flush")) = 1
               /\ io_log[Len(io_log) - 1].e = "flush"

\* The group holds the packets at 10 and 30 of three keyframes: the packet at
\* 20 lies between them and is read, but not decoded.
C33_Witness ==
  /\ op = "seek"
  /\ sk_pc = "done"
  /\ PtsOf(TargetGroup) = <<10, 30>>
  /\ io_log = <<Ev("open", NoPts), Ev("seek", 10), Ev("decode", 10), Ev("skip", 20),
                Ev("decode", 30), Ev("flush", NoPts), Ev("close", NoPts)>>
  /\ sk_out = << <<10, 30>> >>

\* --------------------------------------------- the two passes' claim
Pass2Started == op = "streaming" /\ (io_log # << >> \/ sk_out # << >>)

\* C34: pass 1 is over before pass 2 starts: whenever a file was opened or a
\* frame list yielded, the whole stream has been consumed and there is one
\* boundary per group, and each boundary is four numbers (the ordinal and the
\* timestamp of the group's first and last packet), not packets.
C34_Pass1BeforePass2 ==
  Pass2Started =>
     /\ PtsOf(filter_calls) = PtsOf(Stream)
     /\ Len(filter_calls) = Len(Stream)
     /\ Len(group_boundaries) = Cardinality(StretchStarts)
     /\ \A n \in 1..Len(group_boundaries) :
          /\ DOMAIN group_boundaries[n] = {"start_no", "start_pts", "end_no", "end_pts"}
          /\ \A fld \in DOMAIN group_boundaries[n] : group_boundaries[n][fld] \in Int

\* The first frame list was yielded and the second group is yet to be
\* resolved: its boundary is recorded already.
C34_Witness ==
  /\ op = "streaming"
  /\ sk_pc = "yielded"
  /\ Len(sk_out) = 1
  /\ sk_next = 2
  /\ Len(group_boundaries) = 2
  /\ Len(filter_calls) = 3

\* ------------------------------------------------ the packet limit's claims
\* C35: decode_all_packets_with_flush called with max_packets = 0 processes no
\* packet: it reads nothing from the source and emits no per-packet entry.
C35_ZeroLimitReadsNothing ==
  (op = "flush" /\ max_packets.set /\ max_packets.n = 0) =>
     /\ dec_pos = 0
     /\ PerPacket = << >>

\* C36: with max_packets = m > 0 never more than m packets are taken from the
\* source, and a call whose scan ended by exhaustion or by the limit has taken
\* exactly min(m, n) of the n packets: a scan that ended by the limit leaves
\* the source's cursor before packet m + 1.
C36_LimitLeavesNextPacket ==
  (op = "flush" /\ max_packets.set /\ max_packets.n > 0) =>
     /\ dec_pos <= max_packets.n
     /\ ScanEnded => dec_pos = Min(max_packets.n, SourceLen)
     /\ dec_end = "limit" => dec_pos = max_packets.n

\* A source of three packets and max_packets = 2: the call is drained and the
\* third packet is still in the source.
C36_Witness ==
  /\ op = "flush"
  /\ max_packets = [set |-> TRUE, n |-> 2]
  /\ SourceLen = 3
  /\ Drained
  /\ dec_end = "limit"
  /\ dec_pos = 2
  /\ Len(PerPacket) = 2

\* ------------------------------------------------ the file handles' claim
ResolverCalled ==
  op \in {"seek", "range", "streaming", "inmemory"} /\ sk_pc # "start"

\* Every handle opened is closed before the next one is opened, and by the end.
HandlesClosed ==
  \A i \in 1..Len(io_log) :
     io_log[i].e = "open" =>
        \E j \in (i + 1)..Len(io_log) :
           /\ io_log[j].e = "close"
           /\ \A k \in (i + 1)..(j - 1) : io_log[k].e # "open"

\* On a normal return, after a decode error and after a seek error the handle
\* is closed.
ClosedOnTryPaths == (ResolverCalled /\ file.fault # "novideo") => HandlesClosed

\* C37: every handle opened by decode_group_with_seek or
\* decode_group_by_pts_range is closed when the call returns or raises, on
\* every path, so that no handle of one group is open when the next group is
\* resolved.
C37_HandlesAlwaysClosed == ResolverCalled => HandlesClosed

\* ------------------------------------------- the shared cursor's safety
NoDuplicates(s) == \A i \in 1..Len(s) : \A j \in 1..Len(s) : s[i] = s[j] => i = j

\* C38: under every interleaving of parent and run advances over a single
\* stream, no packet is taken twice from the shared cursor (the packet taken by
\* input-form detection from a one-shot iterator is not taken again), no
\* packet is delivered twice, in one run or in two, and every run delivers its
\* packets in increasing source order.
C38_CursorReadsOnce ==
  SingleStream =>
     /\ NoDuplicates(filter_calls)
     /\ (started /\ packet_stream.oneShot /\ TheStream # << >>) =>
           \A i \in 1..Len(filter_calls) : filter_calls[i] # TheStream[1]
     /\ \A j \in 1..Len(TheStream) : Deliveries(TheStream[j]) <= 1
     /\ \A i \in 1..Len(runs) :
          \A j \in 1..(Len(runs[i].out) - 1) : runs[i].out[j].ord < runs[i].out[j + 1].ord

\* Two runs were requested before either was advanced, and both were drained
\* afterwards: each has delivered its one packet.
C38_Witness ==
  /\ SingleStream
  /\ ~inOrder
  /\ FilterDone
  /\ Len(runs) = 2
  /\ runs[1].out # << >>
  /\ runs[2].out # << >>
  /\ runs[2].out[1].ord = runs[1].out[1].ord + 1

\* ------------------------------------- the keyframe groups' independence
IsPrefix(a, b) == Len(a) <= Len(b) /\ a = SubSeq(b, 1, Len(a))

\* C39: the groups do not depend on how the consumer reads them.  The list
\* behind a yielded group stays what it was when yielded; whatever the order
\* of the consumer's reads, what it has read of a group is a prefix of that
\* group and the whole of it once the group is exhausted; and the drained
\* grouper has yielded one group per passing keyframe, read or not.
C39_GroupsCompleteWhenYielded ==
  op = "keyframe" =>
     /\ Len(kf_iters) = Len(kf_out)
     /\ \A i \in 1..Len(kf_iters) :
          /\ kf_lists[kf_iters[i].obj] = kf_out[i]
          /\ IsPrefix(kf_iters[i].got, kf_out[i])
          /\ kf_iters[i].st = "done" => kf_iters[i].got = kf_out[i]
     /\ kf_pc = "done" => Len(kf_out) = Cardinality(PassingKeys)

\* The grouper is drained; the first group, of two packets, was never read
\* and the second was read to its end.
C39_Witness ==
  /\ op = "keyframe"
  /\ kf_pc = "done"
  /\ Len(kf_iters) = 2
  /\ Len(kf_out[1]) = 2
  /\ kf_iters[1].got = << >>
  /\ kf_iters[2].st = "done"
  /\ kf_iters[2].got = kf_out[2]

====
